---------------------------- MODULE Spec2Model ----------------------------
(***************************************************************************)
(* A model of gptk's ModelTrainer (libgptk/optimisation/ModelTrainer.cpp): *)
(* the objective/gradient oracle with its evaluation counters, parameter   *)
(* masking, the gradient check, and the line minimiser with its bracketing *)
(* routine.                                                                *)
(*                                                                         *)
(* Two specifications share the variables:                                 *)
(*   Spec      the trainer session: calls of the oracle, of setParameters  *)
(*             and getParameters, and of checkGradient;                    *)
(*   LineSpec  one call of lineMinimiser (bracketMinimum included), one    *)
(*             action per basic block, on a one-dimensional objective.     *)
(*                                                                         *)
(* Reals are modelled on a fixed-point grid: a step length is an integer   *)
(* number of grid units (Scale units = 1.0) and every product with a       *)
(* constant or quotient is rounded to the nearest grid point.  Objective   *)
(* values are exact integers.                                              *)
(***************************************************************************)
EXTENDS Integers, Sequences, FiniteSets

VARIABLES
    \* ---- trainer session (ModelTrainer fields and the model's vector)
    params,               \* model.getParametersVector()
    maskSet,              \* ModelTrainer::maskSet
    optimisationMask,     \* ModelTrainer::optimisationMask
    analyticGradients,    \* ModelTrainer::analyticGradients
    functionEvaluations,  \* ModelTrainer::functionEvaluations
    gradientEvaluations,  \* ModelTrainer::gradientEvaluations
    functionValue,        \* ModelTrainer::functionValue
    outcome,              \* "ok", or "abort" once a call has aborted
    lastOp,               \* history: the operation that made the last step
    lastArg,              \* history: its vector argument
    lastRet,              \* history: the vector it returned
    pre,                  \* history: the session state before the last step
    \* ---- one call of lineMinimiser
    objective,            \* the model's objective along the direction
    lineMinimiserParameterTolerance,
    pc,                   \* the position in lineMinimiser / bracketMinimum
    a, b, c, fa, fb, fc,  \* bracketMinimum's points and their stored values
    fu, bracket_found,
    br_min, br_mid, br_max,
    x, fx, w, fw, v, fv,  \* lineMinimiser's best, second and third points
    e, d, n,
    lastDen,              \* history: <<the last interpolation denominator>>
    trials                \* history: the steps evaluated by the refinement

sessionVars == <<params, maskSet, optimisationMask, analyticGradients,
                 functionEvaluations, gradientEvaluations,
                 outcome, lastOp, lastArg, lastRet, pre>>

bracketVars == <<a, b, c, fa, fb, fc, fu, bracket_found>>

refineVars == <<x, fx, w, fw, v, fv, e, d, n, trials>>

lineVars == <<objective, lineMinimiserParameterTolerance, pc, bracketVars,
              br_min, br_mid, br_max, refineVars, lastDen>>

vars == <<sessionVars, functionValue, lineVars>>

-----------------------------------------------------------------------------
(* Bounds of the model *)

NumParams == 2      \* length of the model's full parameter vector
MaxParam == 1       \* callers' vectors start at a value in 0..MaxParam
MaxEvals == 4       \* functionEvaluations is explored up to this value
MaxGrads == 2       \* gradientEvaluations is explored up to this value
MaxDrift == 1       \* parameter values are explored down to -MaxDrift

(* Program constants *)

epsilon == 1        \* finite-difference delta: one grid unit of a parameter

-----------------------------------------------------------------------------
(* Helpers *)

Abs(i) == IF i < 0 THEN -i ELSE i

Max(i, j) == IF i >= j THEN i ELSE j

\* The vectors a caller passes: len consecutive values from a first value in
\* 0..MaxParam, so that no two entries of a vector are equal.
Vectors(len) == {[i \in 1..len |-> first + i - 1] : first \in 0..MaxParam}

Masks == [1..NumParams -> BOOLEAN]

CountTrue(mask) == Cardinality({i \in 1..Len(mask) : mask[i]})

-----------------------------------------------------------------------------
(* setParameters / getParameters *)

\* p(pos) of the source, 0-based there and 1-based here.  A read past the
\* end of p is an out-of-bounds read: it yields the value g, which the
\* caller draws from every value the memory may hold.
ReadAt(p, pos, g) == IF pos <= Len(p) THEN p[pos] ELSE g

RECURSIVE MaskLoop(_, _, _, _, _, _)
MaskLoop(maskedParameters, mask, p, i, pos, g) ==
    IF i > Len(mask) THEN maskedParameters
    ELSE IF mask[i] = TRUE
         THEN MaskLoop([maskedParameters EXCEPT ![i] = ReadAt(p, pos, g)],
                       mask, p, i + 1, pos + 1, g)
         ELSE MaskLoop(maskedParameters, mask, p, i + 1, pos, g)

\* Mutant of setParameters: p(i) is read instead of p(pos).
RECURSIVE MaskLoopSameIndex(_, _, _, _, _)
MaskLoopSameIndex(maskedParameters, mask, p, i, g) ==
    IF i > Len(mask) THEN maskedParameters
    ELSE IF mask[i] = TRUE
         THEN MaskLoopSameIndex([maskedParameters EXCEPT ![i] = ReadAt(p, i, g)],
                                mask, p, i + 1, g)
         ELSE MaskLoopSameIndex(maskedParameters, mask, p, i + 1, g)

setParametersSameIndex(mp, isSet, mask, p, g) ==
    IF isSet THEN MaskLoopSameIndex(mp, mask, p, 1, g) ELSE p

\* The model's vector after setParameters(p), mp being the vector before.
setParameters(mp, isSet, mask, p, g) ==
    IF isSet THEN MaskLoop(mp, mask, p, 1, 1, g) ELSE p

RECURSIVE ConcatLoop(_, _, _, _)
ConcatLoop(maskedParameters, mask, p, i) ==
    IF i > Len(mask) THEN maskedParameters
    ELSE IF mask[i] = TRUE
         THEN ConcatLoop(Append(maskedParameters, p[i]), mask, p, i + 1)
         ELSE ConcatLoop(maskedParameters, mask, p, i + 1)

\* Mutant of getParameters: the mask is ignored.
getParametersUnmasked(mp, isSet, mask) == mp

\* The vector getParameters() returns, mp being the model's vector.
getParameters(mp, isSet, mask) ==
    IF isSet THEN ConcatLoop(<<>>, mask, mp, 1) ELSE mp

\* The number of entries a caller's vector must have.
ActiveCount == IF maskSet THEN CountTrue(optimisationMask) ELSE NumParams

-----------------------------------------------------------------------------
(* The oracle.  A session state st is [params, fe, ge]: the model's vector *)
(* and the two evaluation counters.                                        *)

Session == [params |-> params, fe |-> functionEvaluations,
            ge |-> gradientEvaluations]

\* Mutant of errorFunction: the counter is left alone.
errorFunctionNoCount(st, p) ==
    [st EXCEPT !.params = setParameters(st.params, maskSet, optimisationMask, p, 0)]

\* errorFunction(p): count, install, evaluate.
errorFunction(st, p) ==
    [st EXCEPT !.fe = st.fe + 1,
               !.params = setParameters(st.params, maskSet, optimisationMask, p, 0)]

\* xNew of calculateNumericalGradient: params with delta added at one index.
Shifted(p, parameterNumber, delta) ==
    [p EXCEPT ![parameterNumber] = p[parameterNumber] + delta]

\* calculateNumericalGradient(parameterNumber, p): two evaluations, at
\* p + epsilon and at p - epsilon; the model is left at the second point.
calculateNumericalGradient(st, parameterNumber, p) ==
    errorFunction(errorFunction(st, Shifted(p, parameterNumber, epsilon)),
                  Shifted(p, parameterNumber, -epsilon))

RECURSIVE NumericalLoop(_, _, _)
NumericalLoop(st, p, i) ==
    IF i > Len(p) THEN st
    ELSE NumericalLoop(calculateNumericalGradient(st, i, p), p, i + 1)

\* numericalGradients(p): install p, then one central difference per entry.
numericalGradients(st, p) ==
    NumericalLoop([st EXCEPT !.params =
                       setParameters(st.params, maskSet, optimisationMask, p, 0)],
                  p, 1)

\* errorGradients(p).
errorGradients(st, p) ==
    IF analyticGradients
    THEN [st EXCEPT !.ge = st.ge + 1,
                    !.params = setParameters(st.params, maskSet, optimisationMask, p, 0)]
    ELSE numericalGradients(st, p)

\* lineFunction(param, lambda, direction), point being param + lambda *
\* direction: save the parameters, evaluate at the point, put them back.
lineFunction(st, point) ==
    LET xOld == getParameters(st.params, maskSet, optimisationMask)
        st1 == errorFunction(st, point)
    IN  [st1 EXCEPT !.params =
             setParameters(st1.params, maskSet, optimisationMask, xOld, 0)]

RECURSIVE CheckLoop(_, _, _, _)
CheckLoop(st, xOld, i, pos) ==
    IF i > NumParams THEN st
    ELSE IF maskSet
         THEN IF optimisationMask[i] = TRUE
              THEN CheckLoop(calculateNumericalGradient(st, pos, xOld),
                             xOld, i + 1, pos + 1)
              ELSE CheckLoop(st, xOld, i + 1, pos)
         ELSE CheckLoop(calculateNumericalGradient(st, i, xOld), xOld, i + 1, pos)

\* checkGradient(): numParams is the length of the model's gradient, which
\* is the length of its full parameter vector.
checkGradient(st) ==
    CheckLoop(st, getParameters(st.params, maskSet, optimisationMask), 1, 1)

-----------------------------------------------------------------------------
(* The trainer session *)

Snapshot == [params |-> params, fe |-> functionEvaluations,
             ge |-> gradientEvaluations, functionValue |-> functionValue,
             maskSet |-> maskSet, optimisationMask |-> optimisationMask,
             analyticGradients |-> analyticGradients]

\* Values the memory behind a vector may hold.
Garbage == {-MaxDrift, MaxParam + NumParams}

InRange(st) ==
    /\ st.fe <= MaxEvals
    /\ st.ge <= MaxGrads
    /\ \A i \in 1..Len(st.params) : st.params[i] >= -MaxDrift

Install(st, op, arg, ret) ==
    /\ InRange(st)
    /\ params' = st.params
    /\ functionEvaluations' = st.fe
    /\ gradientEvaluations' = st.ge
    /\ lastOp' = op
    /\ lastArg' = arg
    /\ lastRet' = ret
    /\ pre' = Snapshot
    /\ UNCHANGED <<maskSet, optimisationMask, analyticGradients, functionValue,
                   lineVars>>

TrainerInit ==
    /\ params \in Vectors(NumParams)
    /\ maskSet \in BOOLEAN
    /\ optimisationMask \in Masks
    /\ analyticGradients \in BOOLEAN
    /\ functionEvaluations = 0
    /\ gradientEvaluations = 0
    /\ functionValue = 0
    /\ outcome = "ok"
    /\ lastOp = "init"
    /\ lastArg = <<>>
    /\ lastRet = <<>>
    /\ pre = Snapshot
    /\ objective = [kind |-> "abs", m |-> 0, sl |-> 1, sr |-> 1, h |-> 0]
    /\ lineMinimiserParameterTolerance = 1
    /\ pc = "idle"
    /\ a = 0 /\ b = 0 /\ c = 0 /\ fa = 0 /\ fb = 0 /\ fc = 0
    /\ fu = 0 /\ bracket_found = FALSE
    /\ br_min = 0 /\ br_mid = 0 /\ br_max = 0
    /\ x = 0 /\ fx = 0 /\ w = 0 /\ fw = 0 /\ v = 0 /\ fv = 0
    /\ e = 0 /\ d = 0 /\ n = 0
    /\ lastDen = <<>>
    /\ trials = {}

CallErrorFunction ==
    /\ outcome = "ok"
    /\ \E p \in Vectors(ActiveCount) :
          Install(errorFunction(Session, p), "errorFunction", p, <<>>)
    /\ UNCHANGED outcome

CallErrorGradients ==
    /\ outcome = "ok"
    /\ \E p \in Vectors(ActiveCount) :
          Install(errorGradients(Session, p), "errorGradients", p, <<>>)
    /\ UNCHANGED outcome

CallLineFunction ==
    /\ outcome = "ok"
    /\ \E point \in Vectors(ActiveCount) :
          Install(lineFunction(Session, point), "lineFunction", point, <<>>)
    /\ UNCHANGED outcome

CallGetParameters ==
    /\ outcome = "ok"
    /\ Install(Session, "getParameters", <<>>,
               getParameters(params, maskSet, optimisationMask))
    /\ UNCHANGED outcome

\* setParameters(p) with a vector of the right length.
CallSetParameters ==
    /\ outcome = "ok"
    /\ \E p \in Vectors(ActiveCount) :
          Install([Session EXCEPT !.params =
                       setParameters(params, maskSet, optimisationMask, p, 0)],
                  "setParameters", p, <<>>)
    /\ UNCHANGED outcome

\* setParameters(p) with a mask and a vector that is too long: the loop
\* reads the first ActiveCount entries and never looks at the rest.
CallSetParametersLong ==
    /\ outcome = "ok"
    /\ maskSet
    /\ \E p \in Vectors(ActiveCount + 1) :
          Install([Session EXCEPT !.params =
                       setParameters(params, maskSet, optimisationMask, p, 0)],
                  "setParameters", p, <<>>)
    /\ UNCHANGED outcome

\* setParameters(p) with a mask and a vector that is too short: p(pos) reads
\* past the end of p.  The vector type checks the index in a debug build
\* (the call aborts) and not in a release build (the read yields whatever
\* the memory holds).
CallSetParametersShortAbort ==
    /\ outcome = "ok"
    /\ maskSet
    /\ ActiveCount > 0
    /\ \E p \in Vectors(ActiveCount - 1) :
          Install(Session, "setParameters", p, <<>>)
    /\ outcome' = "abort"

CallSetParametersShortRead ==
    /\ outcome = "ok"
    /\ maskSet
    /\ ActiveCount > 0
    /\ \E p \in Vectors(ActiveCount - 1), g \in Garbage :
          Install([Session EXCEPT !.params =
                       setParameters(params, maskSet, optimisationMask, p, g)],
                  "setParameters", p, <<>>)
    /\ UNCHANGED outcome

\* A caller's setParameters(getParameters()).
CallSetGetParameters ==
    /\ outcome = "ok"
    /\ LET got == getParameters(params, maskSet, optimisationMask)
       IN  Install([Session EXCEPT !.params =
                        setParameters(params, maskSet, optimisationMask, got, 0)],
                   "setGetParameters", got, got)
    /\ UNCHANGED outcome

CallCheckGradient ==
    /\ outcome = "ok"
    /\ Install(checkGradient(Session), "checkGradient", <<>>, <<>>)
    /\ UNCHANGED outcome

\* Summary() prints and changes nothing.
CallSummary ==
    /\ outcome = "ok"
    /\ lastOp # "Summary"
    /\ Install(Session, "Summary", <<>>, <<>>)
    /\ UNCHANGED outcome

Next ==
    \/ CallErrorFunction
    \/ CallErrorGradients
    \/ CallLineFunction
    \/ CallGetParameters
    \/ CallSetParameters
    \/ CallSetParametersLong
    \/ CallSetParametersShortAbort
    \/ CallSetParametersShortRead
    \/ CallSetGetParameters
    \/ CallCheckGradient
    \/ CallSummary

Spec == TrainerInit /\ [][Next]_vars

-----------------------------------------------------------------------------
(* Fixed-point arithmetic of the line search *)

Scale == 10              \* grid units per unit step length

MaxMinHalves == 12       \* objectives have their minimum at 0, 0.5, ... steps
MaxSlope == 3            \* and slopes (curvatures) 1..MaxSlope on each side
MaxTol == 2              \* lineMinimiserParameterTolerance, in grid units

PHI_NUM == 1618          \* PHI = PHI_NUM / PHI_DEN, the golden ratio
PHI_DEN == 1000
CPHI_NUM == 382          \* CPHI = 1 - 1/PHI = CPHI_NUM / PHI_DEN
TOL_DEN == 100000000     \* TOL = 1 / TOL_DEN, about sqrt(machine epsilon)
TINY == 1                \* the smallest positive magnitude of the grid

max_step == 10
lineMinimiserIterations == 10

\* num / den rounded to the nearest integer, halves away from zero.
RoundDiv(num, den) ==
    LET sn == IF (num < 0) = (den < 0) THEN 1 ELSE -1
        an == Abs(num)
        ad == Abs(den)
    IN  sn * ((2 * an + ad) \div (2 * ad))

\* The library's signum: sign(0) = 0.
sign(i) == IF i = 0 THEN 0 ELSE IF i < 0 THEN -1 ELSE 1

\* i * j > 0 and i * j >= 0, decided from the factors' signs.
ProductPositive(i, j) == sign(i) * sign(j) > 0

ProductNonNegative(i, j) == sign(i) * sign(j) >= 0

MulPhi(i) == RoundDiv(PHI_NUM * i, PHI_DEN)

DivPhi(i) == RoundDiv(PHI_DEN * i, PHI_NUM)

MulCPhi(i) == RoundDiv(CPHI_NUM * i, PHI_DEN)

-----------------------------------------------------------------------------
(* The objective along the direction *)

\* A strictly unimodal objective: |t - m| or (t - m)^2 with its own slope
\* on each side of the minimum m.  h > 0 adds a bump of height h between
\* the first two steps bracketMinimum tries, which makes a second local
\* minimum.  The quadratics have m > 0: where t * t underflows to 0 in
\* floating point, on this grid it is never below one unit.
Objectives ==
    { o \in [kind : {"abs", "sq"},
             m : {k * (Scale \div 2) : k \in 0..MaxMinHalves},
             sl : 1..MaxSlope, sr : 1..MaxSlope,
             h : {0, 4 * Scale * Scale}] :
        o.kind = "sq" => o.m > 0 }

StrictlyUnimodal(o) == o.h = 0

Base(o, t) ==
    LET dist == Abs(t - o.m)
        k == IF t < o.m THEN o.sl ELSE o.sr
    IN  IF o.kind = "abs" THEN k * dist ELSE k * dist * dist

Objective(o, t) ==
    Base(o, t) + (IF Scale < t /\ t < Scale + MulPhi(Scale) THEN o.h ELSE 0)

\* lineFunction(params, lambda, direction): the objective at step lambda.
\* (The call's effect on the session is lineFunction of Spec: one function
\* evaluation, the parameters put back.)
LineValue(lambda) == Objective(objective, lambda)

-----------------------------------------------------------------------------
(* bracketMinimum *)

\* The inverse parabolic interpolation through (a,fa), (b,fb), (c,fc).
InterpR == (b - a) * (fb - fc)

InterpQ == (b - c) * (fb - fa)

InterpNum == (b - c) * InterpQ - (b - a) * InterpR

InterpDen == 2 * (sign(InterpQ - InterpR) * Max(Abs(InterpQ - InterpR), TINY))

\* u: finite, or what IEEE division by 0.0 gives.
InterpU ==
    IF InterpDen # 0 THEN [k |-> "fin", val |-> b - RoundDiv(InterpNum, InterpDen)]
    ELSE IF InterpNum < 0 THEN [k |-> "pinf", val |-> 0]
    ELSE IF InterpNum > 0 THEN [k |-> "ninf", val |-> 0]
    ELSE [k |-> "nan", val |-> 0]

ulimit == b + max_step * (c - b)

\* (b - u) * (u - c) > 0.0
UBetween ==
    InterpU.k = "fin" /\ ProductPositive(b - InterpU.val, InterpU.val - c)

\* (c - u) * (u - ulimit) > 0.0
UWithinLimit ==
    InterpU.k = "fin" /\ ProductPositive(c - InterpU.val, InterpU.val - ulimit)

\* (u - ulimit) * (ulimit - c) >= 0.0
UBeyondLimit ==
    CASE InterpU.k = "fin" -> ProductNonNegative(InterpU.val - ulimit, ulimit - c)
      [] InterpU.k = "pinf" -> ulimit - c > 0
      [] InterpU.k = "ninf" -> ulimit - c < 0
      [] OTHER -> FALSE

LineRest == <<objective, lineMinimiserParameterTolerance>>

LineInit ==
    /\ params = <<>>
    /\ maskSet = FALSE
    /\ optimisationMask = <<>>
    /\ analyticGradients = TRUE
    /\ functionEvaluations = 0
    /\ gradientEvaluations = 0
    /\ functionValue = 0
    /\ outcome = "ok"
    /\ lastOp = "init"
    /\ lastArg = <<>>
    /\ lastRet = <<>>
    /\ pre = <<>>
    /\ objective \in Objectives
    /\ lineMinimiserParameterTolerance \in 1..MaxTol
    /\ pc = "bracketMinimum"
    /\ a = 0 /\ b = Scale /\ c = 0
    /\ fa = Objective(objective, 0) /\ fb = 0 /\ fc = 0
    /\ fu = 0 /\ bracket_found = FALSE
    /\ br_min = 0 /\ br_mid = 0 /\ br_max = 0
    /\ x = 0 /\ fx = 0 /\ w = 0 /\ fw = 0 /\ v = 0 /\ fv = 0
    /\ e = 0 /\ d = 0 /\ n = 0
    /\ lastDen = <<>>
    /\ trials = {}

\* Lines 373, 379-383: f(b) is worse than f(a); the first shrink.
BracketEnterShrink ==
    /\ pc = "bracketMinimum"
    /\ LineValue(b) > fa
    /\ c' = b
    /\ b' = a + DivPhi(b - a)
    /\ fb' = LineValue(b')
    /\ pc' = "shrink_test"
    /\ UNCHANGED <<a, fa, fc, fu, bracket_found, br_min, br_mid, br_max,
                   refineVars, lastDen, LineRest, functionValue, sessionVars>>

\* Line 385.
ShrinkTest ==
    /\ pc = "shrink_test"
    /\ pc' = IF fb > fa THEN "shrink_body" ELSE "normalise"
    /\ UNCHANGED <<bracketVars, br_min, br_mid, br_max,
                   refineVars, lastDen, LineRest, functionValue, sessionVars>>

\* Lines 387-389.
ShrinkBody ==
    /\ pc = "shrink_body"
    /\ c' = b
    /\ b' = a + DivPhi(b - a)
    /\ fb' = LineValue(b')
    /\ pc' = "shrink_test"
    /\ UNCHANGED <<a, fa, fc, fu, bracket_found, br_min, br_mid, br_max,
                   refineVars, lastDen, LineRest, functionValue, sessionVars>>

\* Lines 373, 392-397.
BracketEnterExpand ==
    /\ pc = "bracketMinimum"
    /\ ~(LineValue(b) > fa)
    /\ fb' = LineValue(b)
    /\ c' = b + MulPhi(b - a)
    /\ fc' = LineValue(c')
    /\ bracket_found' = FALSE
    /\ pc' = "expand_test"
    /\ UNCHANGED <<a, b, fa, fu, br_min, br_mid, br_max,
                   refineVars, lastDen, LineRest, functionValue, sessionVars>>

\* Line 399.
ExpandTest ==
    /\ pc = "expand_test"
    /\ pc' = IF fb > fc THEN "expand_body" ELSE "normalise"
    /\ UNCHANGED <<bracketVars, br_min, br_mid, br_max,
                   refineVars, lastDen, LineRest, functionValue, sessionVars>>

\* Lines 459-460: a = b; b = c; c = u; fa = fb; fb = fc; fc = fu, with the
\* b, c, fb, fc given (the values the body has left in them).
Shift(bNow, cNow, uNow, fuNow, found) ==
    /\ a' = bNow /\ b' = cNow /\ c' = uNow
    /\ fa' = fb /\ fb' = fc /\ fc' = fuNow /\ fu' = fuNow
    /\ bracket_found' = found
    /\ lastDen' = <<InterpDen>>
    /\ pc' = "expand_test"
    /\ UNCHANGED <<br_min, br_mid, br_max, refineVars, LineRest,
                   functionValue, sessionVars>>

Return(lo, mid, hi) ==
    /\ br_min' = lo /\ br_mid' = mid /\ br_max' = hi
    /\ fu' = LineValue(InterpU.val)
    /\ lastDen' = <<InterpDen>>
    /\ pc' = "bracketed"
    /\ UNCHANGED <<a, b, c, fa, fb, fc, bracket_found, refineVars, LineRest,
                   functionValue, sessionVars>>

\* Lines 407-414: u between b and c, and f(u) < f(c).
ExpandReturnInner ==
    /\ pc = "expand_body"
    /\ UBetween
    /\ LineValue(InterpU.val) < fc
    /\ Return(b, InterpU.val, c)

\* Lines 415-421: u between b and c, and f(u) > f(b).
ExpandReturnOuter ==
    /\ pc = "expand_body"
    /\ UBetween
    /\ ~(LineValue(InterpU.val) < fc)
    /\ LineValue(InterpU.val) > fb
    /\ Return(a, c, InterpU.val)

\* Lines 423, 455-460: u between b and c was no use; a golden step.
ExpandBetweenGolden ==
    /\ pc = "expand_body"
    /\ UBetween
    /\ ~(LineValue(InterpU.val) < fc)
    /\ ~(LineValue(InterpU.val) > fb)
    /\ LET uNew == c + MulPhi(c - b)
       IN  Shift(b, c, uNew,
                 IF bracket_found THEN LineValue(InterpU.val) ELSE LineValue(uNew),
                 bracket_found)

\* Lines 427-436, 455-460: u between c and ulimit, f(u) < f(c): b = c;
\* c = u; and a golden step from there.  fb and fc keep their values.
ExpandLimitAdvance ==
    /\ pc = "expand_body"
    /\ ~UBetween
    /\ UWithinLimit
    /\ LineValue(InterpU.val) < fc
    /\ LET uNew == InterpU.val + MulPhi(InterpU.val - c)
       IN  Shift(c, InterpU.val, uNew,
                 IF bracket_found THEN LineValue(InterpU.val) ELSE LineValue(uNew),
                 bracket_found)

\* Lines 437-440, 455-460: u between c and ulimit, f(u) >= f(c).
ExpandLimitFound ==
    /\ pc = "expand_body"
    /\ ~UBetween
    /\ UWithinLimit
    /\ ~(LineValue(InterpU.val) < fc)
    /\ Shift(b, c, InterpU.val, LineValue(InterpU.val), TRUE)

\* Lines 444-447, 455-460: u beyond ulimit.  fu keeps its value when
\* bracket_found is set.
ExpandClampLimit ==
    /\ pc = "expand_body"
    /\ ~UBetween
    /\ ~UWithinLimit
    /\ UBeyondLimit
    /\ Shift(b, c, ulimit, IF bracket_found THEN fu ELSE LineValue(ulimit),
             bracket_found)

\* Lines 448-451, 455-460.
ExpandGolden ==
    /\ pc = "expand_body"
    /\ ~UBetween
    /\ ~UWithinLimit
    /\ ~UBeyondLimit
    /\ LET uNew == c + MulPhi(c - b)
       IN  Shift(b, c, uNew, IF bracket_found THEN fu ELSE LineValue(uNew),
                 bracket_found)

\* Lines 464-473.
BracketNormalise ==
    /\ pc = "normalise"
    /\ br_mid' = b
    /\ br_min' = IF a < c THEN a ELSE c
    /\ br_max' = IF a < c THEN c ELSE a
    /\ pc' = "bracketed"
    /\ UNCHANGED <<bracketVars, refineVars, lastDen, LineRest, functionValue,
                   sessionVars>>

-----------------------------------------------------------------------------
(* lineMinimiser *)

\* tol1 = TOL * abs(x) + TINY
tol1 == RoundDiv(Abs(x), TOL_DEN) + TINY

\* 2 * xm, xm = 0.5 * (br_min + br_max) being a half-integer on the grid.
xm2 == br_min + br_max

\* Line 256.
Converged ==
    /\ Abs(2 * x - xm2) <= 2 * lineMinimiserParameterTolerance
    /\ br_max - br_min < 4 * lineMinimiserParameterTolerance

\* Lines 278-286 and 301-309: the golden section step.
GoldenStep ==
    LET eNew == IF 2 * x >= xm2 THEN br_min - x ELSE br_max - x
    IN  [e |-> eNew, d |-> MulCPhi(eNew), parabolic |-> FALSE]

\* Lines 264-274: the parabola through (v,fv), (w,fw), (x,fx).
ParabolaR == (fx - fv) * (x - w)

ParabolaQ0 == (fx - fw) * (x - v)

ParabolaQ == Abs(2 * (ParabolaQ0 - ParabolaR))

ParabolaP ==
    LET p0 == (x - v) * ParabolaQ0 - (x - w) * ParabolaR
    IN  IF 2 * (ParabolaQ0 - ParabolaR) > 0 THEN -p0 ELSE p0

\* Line 276: the parabolic step is refused.
ParabolaRefused ==
    \/ 2 * Abs(ParabolaP) >= Abs(ParabolaQ * e)
    \/ ParabolaP <= ParabolaQ * (br_min - x)
    \/ ParabolaP >= ParabolaQ * (br_max - x)

\* Lines 290-296: the parabolic step.
ParabolicStep ==
    LET dNew == RoundDiv(ParabolaP, ParabolaQ)
        uNew == x + dNew
    IN  [e |-> d,
         d |-> IF (uNew - br_min < 2 * tol1) \/ (br_max - uNew < 2 * tol1)
               THEN sign(xm2 - 2 * x) * tol1 ELSE dNew,
         parabolic |-> TRUE]

\* Lines 262-310: the new e and d.
Step ==
    IF Abs(e) > tol1
    THEN IF ParabolaRefused THEN GoldenStep ELSE ParabolicStep
    ELSE GoldenStep

\* Lines 312-319: the trial point.
Trial == IF Abs(Step.d) >= tol1 THEN x + Step.d ELSE x + sign(Step.d) * tol1

\* Mutant of TrialAccepted: the comparison is the wrong way round.
TrialAcceptedInverted == LineValue(Trial) >= fx

\* Line 323: fu <= fx.
TrialAccepted == LineValue(Trial) <= fx

\* Lines 243-249.
LineStart ==
    /\ pc = "bracketed"
    /\ w' = br_mid /\ v' = br_mid /\ x' = br_mid
    /\ e' = 0
    /\ fx' = LineValue(br_mid) /\ fv' = LineValue(br_mid) /\ fw' = LineValue(br_mid)
    /\ n' = 1
    /\ trials' = {br_mid}
    /\ pc' = "refine"
    /\ UNCHANGED <<d, bracketVars, br_min, br_mid, br_max, lastDen, LineRest,
                   functionValue, sessionVars>>

\* Line 251: the loop ends at the cap.
LineExhausted ==
    /\ pc = "refine"
    /\ n > lineMinimiserIterations
    /\ pc' = "exhausted"
    /\ UNCHANGED <<refineVars, bracketVars, br_min, br_mid, br_max, lastDen,
                   LineRest, functionValue, sessionVars>>

\* Lines 256-260.
LineConverged ==
    /\ pc = "refine"
    /\ n <= lineMinimiserIterations
    /\ Converged
    /\ functionValue' = fx
    /\ pc' = "converged"
    /\ UNCHANGED <<refineVars, bracketVars, br_min, br_mid, br_max, lastDen,
                   LineRest, sessionVars>>

\* Lines 262-335: an iteration whose trial point is no worse than x.
LineStepBetter ==
    /\ pc = "refine"
    /\ n <= lineMinimiserIterations
    /\ ~Converged
    /\ TrialAccepted
    /\ br_min' = IF Trial >= x THEN x ELSE br_min
    /\ br_max' = IF Trial >= x THEN br_max ELSE x
    /\ v' = w /\ w' = x /\ x' = Trial
    /\ fv' = fw /\ fw' = fx /\ fx' = LineValue(Trial)
    /\ e' = Step.e /\ d' = Step.d
    /\ n' = n + 1
    /\ trials' = trials \cup {Trial}
    /\ UNCHANGED <<pc, bracketVars, br_mid, lastDen, LineRest, functionValue,
                   sessionVars>>

\* Lines 262-321, 336-358: an iteration whose trial point is worse than x.
LineStepWorse ==
    /\ pc = "refine"
    /\ n <= lineMinimiserIterations
    /\ ~Converged
    /\ ~TrialAccepted
    /\ br_min' = IF Trial < x THEN Trial ELSE br_min
    /\ br_max' = IF Trial < x THEN br_max ELSE Trial
    /\ IF (LineValue(Trial) <= fw) \/ (w = x)
       THEN /\ v' = w /\ w' = Trial
            /\ fv' = fw /\ fw' = LineValue(Trial)
       ELSE IF (LineValue(Trial) <= fv) \/ (v = x) \/ (v = w)
            THEN /\ v' = Trial /\ fv' = LineValue(Trial)
                 /\ UNCHANGED <<w, fw>>
            ELSE UNCHANGED <<v, fv, w, fw>>
    /\ e' = Step.e /\ d' = Step.d
    /\ n' = n + 1
    /\ trials' = trials \cup {Trial}
    /\ UNCHANGED <<pc, x, fx, bracketVars, br_mid, lastDen, LineRest,
                   functionValue, sessionVars>>

LineNext ==
    \/ BracketEnterShrink
    \/ ShrinkTest
    \/ ShrinkBody
    \/ BracketEnterExpand
    \/ ExpandTest
    \/ ExpandReturnInner
    \/ ExpandReturnOuter
    \/ ExpandBetweenGolden
    \/ ExpandLimitAdvance
    \/ ExpandLimitFound
    \/ ExpandClampLimit
    \/ ExpandGolden
    \/ BracketNormalise
    \/ LineStart
    \/ LineExhausted
    \/ LineConverged
    \/ LineStepBetter
    \/ LineStepWorse

LineSpec == LineInit /\ [][LineNext]_vars

\* Every statement runs: the program is sequential and nothing else is
\* scheduled.
FairLineSpec == LineSpec /\ WF_vars(LineNext)

-----------------------------------------------------------------------------
(* Properties of the trainer session (Spec) *)

\* The number of true mask entries at indices 1..i.
Rank(mask, i) == Cardinality({j \in 1..i : mask[j]})

\* C2: with a mask active, setParameters(p) with Len(p) equal to the number
\* of true mask entries writes p(0), p(1), ... to the true positions in
\* ascending order and leaves every false position as it was.
C2_MaskedSetFrame ==
    (lastOp = "setParameters" /\ maskSet /\ outcome = "ok"
        /\ Len(lastArg) = CountTrue(optimisationMask))
    => \A i \in 1..NumParams :
          IF optimisationMask[i]
          THEN params[i] = lastArg[Rank(optimisationMask, i)]
          ELSE params[i] = pre.params[i]

C2_Witness ==
    /\ lastOp = "setParameters" /\ maskSet /\ outcome = "ok"
    /\ Len(lastArg) = CountTrue(optimisationMask)
    /\ ~optimisationMask[1] /\ optimisationMask[NumParams]
    /\ params # pre.params

\* C3: setParameters(getParameters()) leaves the model's vector as it was,
\* with no mask and with every mask; with the all-false mask getParameters()
\* returns the empty vector.
C3_GetSetRoundTrip ==
    lastOp = "setGetParameters"
    => /\ params = pre.params
       /\ (maskSet /\ CountTrue(optimisationMask) = 0) => lastRet = <<>>
       /\ Len(lastRet) = ActiveCount

C3_Witness ==
    /\ lastOp = "setGetParameters" /\ maskSet
    /\ ~optimisationMask[1] /\ optimisationMask[NumParams]
    /\ params[1] # params[NumParams]
    /\ lastRet = <<params[NumParams]>>

\* C4 as claimed: the counters never decrease, every errorFunction call adds
\* exactly 1 to functionEvaluations and every errorGradients call adds
\* exactly 1 to gradientEvaluations, analytic gradients or not.
C4_CountersPerCall ==
    /\ functionEvaluations >= pre.fe
    /\ gradientEvaluations >= pre.ge
    /\ lastOp = "errorFunction" => functionEvaluations = pre.fe + 1
    /\ lastOp = "errorGradients" => gradientEvaluations = pre.ge + 1

\* C4 as amended: the counters never decrease; errorFunction adds exactly 1
\* to functionEvaluations; errorGradients adds exactly 1 to
\* gradientEvaluations when analyticGradients is set, and otherwise leaves
\* gradientEvaluations alone and adds 2 per entry of its argument to
\* functionEvaluations.
C4_CountersAnalytic ==
    /\ functionEvaluations >= pre.fe
    /\ gradientEvaluations >= pre.ge
    /\ lastOp = "errorFunction"
          => (functionEvaluations = pre.fe + 1 /\ gradientEvaluations = pre.ge)
    /\ (lastOp = "errorGradients" /\ analyticGradients)
          => (gradientEvaluations = pre.ge + 1 /\ functionEvaluations = pre.fe)
    /\ (lastOp = "errorGradients" /\ ~analyticGradients)
          => (gradientEvaluations = pre.ge
              /\ functionEvaluations = pre.fe + 2 * Len(lastArg))

C4_Witness ==
    /\ lastOp = "errorGradients" /\ ~analyticGradients
    /\ Len(lastArg) = NumParams
    /\ functionEvaluations = pre.fe + 2 * NumParams
    /\ gradientEvaluations = pre.ge

\* C5: with a mask active, setParameters(p) with Len(p) different from the
\* number of true mask entries fails, and the model's vector is as it was.
C5_LengthMismatchFails ==
    (lastOp = "setParameters" /\ maskSet
        /\ Len(lastArg) # CountTrue(optimisationMask))
    => (outcome = "abort" /\ params = pre.params)

\* C8: checkGradient changes nothing but the evaluation counters.
C8_CheckGradientPure ==
    lastOp = "checkGradient"
    => /\ params = pre.params
       /\ functionValue = pre.functionValue
       /\ maskSet = pre.maskSet
       /\ optimisationMask = pre.optimisationMask
       /\ analyticGradients = pre.analyticGradients

-----------------------------------------------------------------------------
(* Properties of the line search (LineSpec, FairLineSpec) *)

InBracketMinimum ==
    pc \in {"bracketMinimum", "shrink_test", "shrink_body", "expand_test",
            "expand_body", "normalise"}

InRefinement == pc \in {"refine", "converged", "exhausted"}

\* C1: for a strictly unimodal objective, bracketMinimum returns
\* br_min < br_mid < br_max with f(br_mid) <= f(br_min) and
\* f(br_mid) <= f(br_max).
C1_BracketValid ==
    (pc = "bracketed" /\ StrictlyUnimodal(objective))
    => /\ br_min < br_mid /\ br_mid < br_max
       /\ LineValue(br_mid) <= LineValue(br_min)
       /\ LineValue(br_mid) <= LineValue(br_max)

\* C6: for a strictly unimodal objective, bracketMinimum returns.
C6_BracketTerminates ==
    StrictlyUnimodal(objective) => <>(~InBracketMinimum)

\* C7: lineMinimiser runs at most lineMinimiserIterations iterations and
\* returns; throughout, and so at the cap, fx is the objective at x and no
\* trial step of the refinement has a smaller objective.
C7_BestSoFar ==
    /\ [](InRefinement
            => /\ n <= lineMinimiserIterations + 1
               /\ Cardinality(trials) <= n
               /\ fx = LineValue(x)
               /\ \A t \in trials : fx <= LineValue(t))
    /\ (pc = "bracketed" ~> pc \in {"converged", "exhausted"})

C7_Witness ==
    /\ pc = "exhausted"
    /\ n = lineMinimiserIterations + 1
    /\ Cardinality(trials) > 3
    /\ \E t \in trials : LineValue(t) > fx
    /\ fx < LineValue(br_mid)

\* C9: the interpolation of bracketMinimum never divides by less than
\* 2 * TINY in magnitude.
C9_DenominatorFloor ==
    \A i \in 1..Len(lastDen) : Abs(lastDen[i]) >= 2 * TINY

\* C10: throughout lineMinimiser the best step is inside the bracket.
C10_BestInsideBracket ==
    InRefinement => (br_min <= x /\ x <= br_max /\ br_min < br_max)

=============================================================================
